---- MODULE Spec2Model ----
(***************************************************************************)
(* Model of tree-cli: the Walker (FileIterator), the elision filter        *)
(* (FilteredIterator) and the orchestrator loop (DirTree::print_folders).  *)
(* One behaviour is one run of the program over one filesystem snapshot    *)
(* with one configuration.                                                 *)
(***************************************************************************)
EXTENDS Integers, Sequences, FiniteSets, TLC

\* ------------------------------------------------------------------------
\* Bounds of the model
\* ------------------------------------------------------------------------

\* Largest number of filesystem nodes below the root (also bounds the depth).
MaxNodes == 4

\* The same for the snapshots with faults.
MaxFaultNodes == 3
MaxSwitches == 4

\* Largest mantissa m of a file length m * 1024^k given to the size formatter.
MaxMantissa == 12288

\* Nodes below the root in the snapshots walked twice.
MaxOrderNodes == 3

\* Nodes below the root where next() is called past the end of the sequence,
\* and the calls made after the first end of the sequence.
MaxCallNodes == 3
MaxExtraCalls == 2

\* Nodes below the root in the runs over roots of any name and kind.
MaxRootNodes == 2

\* Nodes below the root in the snapshots holding links to a directory
\* beside them.
MaxLinkedNodes == 4

\* Nodes below the root in the snapshots holding links back to the root.
MaxLinkNodes == 3

\* Nodes below the root in the snapshots printed with colours and sizes.
MaxRenderNodes == 2

\* Nodes below the root in the snapshots walked under either include pattern.
MaxPatternNodes == 3

\* ------------------------------------------------------------------------
\* Names: strings are sequences of character codes
\* ------------------------------------------------------------------------

\* '.'
ChDot == 46

\* "a", "b.r" and the hidden ".r"  ('a' = 97, 'b' = 98, 'r' = 114)
NameA == <<97>>
NameBR == <<98, ChDot, 114>>
NameDotR == <<ChDot, 114>>
\* "." : file name of the default DIR argument
NameRoot == <<ChDot>>

\* The names a directory listing may hold, in ascending byte order.
NameSeq == <<NameDotR, NameA, NameBR>>
Names == {NameSeq[i] : i \in 1..Len(NameSeq)}

\* byte-wise lexicographic order of OsString (Ord), strict
LexLess(a, b) ==
    \E i \in 1..(Len(a) + 1) :
        /\ \A j \in 1..(i - 1) : j <= Len(b) /\ a[j] = b[j]
        /\ \/ i = Len(a) + 1 /\ i <= Len(b)
           \/ i <= Len(a) /\ i <= Len(b) /\ a[i] < b[i]

\* str::starts_with('.')
StartsWithDot(name) == Len(name) > 0 /\ name[1] = ChDot

\* ------------------------------------------------------------------------
\* Globs: Option<GlobMatcher>, for the patterns "*<lit>" and "<lit>"
\* ------------------------------------------------------------------------

NoGlob == [some |-> FALSE, star |-> FALSE, lit |-> <<>>]
GlobStarDotR == [some |-> TRUE, star |-> TRUE, lit |-> <<ChDot, 114>>]
GlobLitBR == [some |-> TRUE, star |-> FALSE, lit |-> NameBR]

IsSuffix(s, t) ==
    /\ Len(s) <= Len(t)
    /\ \A i \in 1..Len(s) : s[i] = t[Len(t) - Len(s) + i]

\* GlobMatcher::is_match on a file name
GlobMatch(glob, name) ==
    IF glob.star THEN IsSuffix(glob.lit, name) ELSE name = glob.lit

\* ------------------------------------------------------------------------
\* The filesystem snapshot
\* ------------------------------------------------------------------------

NoChildren == [n \in {} |-> 0]
\* kind: what symlink_metadata reports, "err" when it fails;
\* listing: how reading the directory goes, "ok", "denied" (read_dir fails)
\* or "partial" (an entry of the listing fails)
\* a regular file with its length (metadata.len(), as mant * 1024^exp) and
\* whether a bit of 0o111 is set in its mode
SizedFileNode(len, exec) ==
    [kind |-> "file", children |-> NoChildren, listing |-> "ok",
     len |-> len, exec |-> exec]
FileNode == SizedFileNode([mant |-> 0, exp |-> 0], FALSE)
\* a symbolic link to the directory at path target: symlink_metadata reports
\* neither a file nor a directory
SymlinkNode(target) ==
    [kind |-> "symlink", children |-> NoChildren, listing |-> "ok",
     target |-> target]
DirNode(c) == [kind |-> "dir", children |-> c, listing |-> "ok"]
ErrNode == [kind |-> "err", children |-> NoChildren, listing |-> "ok"]
FaultyDirNode(c, how) == [kind |-> "dir", children |-> c, listing |-> how]

RECURSIVE NodeCount(_)
\* number of nodes in a children map, all levels
NodeCount(c) ==
    LET RECURSIVE Sum(_)
        Sum(S) == IF S = {} THEN 0
                  ELSE LET n == CHOOSE x \in S : TRUE
                       IN 1 + NodeCount(c[n].children) + Sum(S \ {n})
    IN Sum(DOMAIN c)

RECURSIVE Listings(_, _)
\* every children map over the names NameSeq[i..] holding at most b nodes
Listings(i, b) ==
    IF i > Len(NameSeq) THEN {NoChildren}
    ELSE LET n == NameSeq[i]
             absent == Listings(i + 1, b)
             asFile == IF b >= 1
                       THEN {(n :> FileNode) @@ g : g \in Listings(i + 1, b - 1)}
                       ELSE {}
             asDir == IF b >= 1
                      THEN UNION {{(n :> DirNode(c)) @@ g :
                                      g \in Listings(i + 1, b - 1 - NodeCount(c))} :
                                  c \in Listings(1, b - 1)}
                      ELSE {}
         IN absent \cup asFile \cup asDir

Trees == Listings(1, MaxNodes)

\* Snapshots with faults: entries whose metadata cannot be read and
\* directories that cannot be listed (whatever they hold).
ListingModes == {"ok", "denied", "partial"}

\* the names in these snapshots
FaultNameSeq == <<NameA, NameBR>>

RECURSIVE FaultListings(_, _)
\* every children map over the names FaultNameSeq[i..] holding at most b nodes
FaultListings(i, b) ==
    IF i > Len(FaultNameSeq) THEN {NoChildren}
    ELSE LET n == FaultNameSeq[i]
             absent == FaultListings(i + 1, b)
             asLeaf == IF b >= 1
                       THEN {(n :> leaf) @@ g :
                                leaf \in {FileNode, ErrNode},
                                g \in FaultListings(i + 1, b - 1)}
                       ELSE {}
             asDir == IF b >= 1
                      THEN UNION {{(n :> FaultyDirNode(c, how)) @@ g :
                                      how \in ListingModes,
                                      g \in FaultListings(i + 1,
                                                b - 1 - NodeCount(c))} :
                                  c \in FaultListings(1, b - 1)}
                      ELSE {}
         IN absent \cup asLeaf \cup asDir

\* the root: a directory, listable or not, a missing path, or a file
FaultRoots ==
    {FaultyDirNode(c, how) :
        c \in FaultListings(1, MaxFaultNodes), how \in ListingModes}
    \cup {ErrNode, FileNode}

\* ------------------------------------------------------------------------
\* Configuration (core::Config as built by main)
\* ------------------------------------------------------------------------

\* default of --level, usize::MAX: no level of the model reaches it; written
\* as the largest integer the checker's arithmetic holds
UsizeMax == 2147483647

MaxLevels == {0, 1, UsizeMax}
IncludeGlobs == {NoGlob, GlobStarDotR}
ExcludeGlobs == {NoGlob, GlobLitBR}

\* Config has the fields of core.rs (colorful, show_all, size, max_level,
\* include_glob, exclude_glob) and human_readable, the field print_path
\* reads: the struct does not declare it and main does not set it.  The
\* runs that are about the walk are made without colours and sizes.
Configs ==
    [show_all : BOOLEAN, max_level : MaxLevels,
     include_glob : IncludeGlobs, exclude_glob : ExcludeGlobs,
     colorful : {FALSE}, size : {FALSE}, human_readable : {FALSE}]

\* main: the flags -C and -N, term::stdout().is_some() and the last
\* component of DIR (the default "." where the root's name is not under study)
ArgSets ==
    [color_on : BOOLEAN, color_off : BOOLEAN, is_tty : BOOLEAN,
     dir : {NameRoot}]
PlainArgs ==
    [color_on |-> FALSE, color_off |-> FALSE, is_tty |-> FALSE,
     dir |-> NameRoot]

\* main's colorful in which -N wins over -C
ColorfulOffWins(a) ==
    IF a.color_off THEN FALSE
    ELSE IF a.color_on THEN TRUE
    ELSE a.is_tty

\* main: let colorful = if color_on .. else if color_off .. else is_tty
Colorful(a) ==
    IF a.color_on THEN TRUE
    ELSE IF a.color_off THEN FALSE
    ELSE a.is_tty

VARIABLES
    fs,                 \* the root node of the filesystem snapshot
    config,             \* core::Config
    args,               \* main: color_on, color_off and is_tty
    listing_order,      \* the order in which the system lists names in this run
    first_run,          \* history: what an earlier run over the same snapshot
                        \* with the same configuration printed, <<>> if none
    iter,               \* the FilteredIterator (and the FileIterator in it)
    symbol_switch_list, \* print_folders: the level-state vector
    prefix,             \* print_folders: the prefix buffer
    summary,            \* DirSummary
    printed,            \* lines written so far: the entry, its prefix, its
                        \* text and (history) the level-state vector used
    summary_line,       \* main: the final line, <<>> until written
    exit_status,        \* the status the process ended with, <<>> while it runs
    walked,             \* history: the items FileIterator::next has returned
    pc                  \* "loop" inside print_folders, then "done"; "prefix",
                        \* "rendered", "rendered twice" around two calls of
                        \* set_line_prefix alone

vars == <<fs, config, args, listing_order, first_run, iter, symbol_switch_list, prefix, summary, printed,
          summary_line, exit_status, walked, pc>>

\* ------------------------------------------------------------------------
\* FileItem
\* ------------------------------------------------------------------------

RECURSIVE NodeAt(_, _)
\* the node a path (names below the root) leads to
\* what the system finds behind a node: the node, or a link's target
Resolve(node) ==
    IF node.kind = "symlink" THEN NodeAt(fs, node.target) ELSE node

\* the node a path names, links on the way followed, the last one not
\* (symlink_metadata)
NodeAt(node, path) ==
    IF path = <<>> THEN node
    ELSE NodeAt(Resolve(node).children[Head(path)], Tail(path))

\* new that reads the metadata through links (metadata in place of
\* symlink_metadata)
FileItemNewFollowing(path, level, is_last) ==
    [file_name |-> IF path = <<>> THEN args.dir ELSE path[Len(path)],
     path |-> path,
     kind |-> Resolve(NodeAt(fs, path)).kind,
     level |-> level,
     is_last |-> is_last]

FileItemNew(path, level, is_last) ==
    [file_name |-> IF path = <<>> THEN args.dir ELSE path[Len(path)],
     path |-> path,
     kind |-> NodeAt(fs, path).kind,
     level |-> level,
     is_last |-> is_last]

\* is_dir that takes unreadable metadata for a directory
IsDirUnlessFile(item) == item.kind # "file"

\* is_dir on metadata that follows links (fs::metadata)
IsDirFollowingLinks(item) ==
    \/ item.kind = "dir"
    \/ item.kind = "symlink" /\ Resolve(NodeAt(fs, item.path)).kind = "dir"

IsDir(item) == item.kind = "dir"

\* ------------------------------------------------------------------------
\* FileIterator
\* ------------------------------------------------------------------------

\* new that puts the root through the hidden-name and include filters
FileIteratorNewFiltered(path, cfg) ==
    LET root == FileItemNew(path, 0, TRUE)
        keep == /\ cfg.show_all \/ ~StartsWithDot(root.file_name)
                /\ \/ IsDir(root)
                   \/ ~cfg.include_glob.some
                   \/ GlobMatch(cfg.include_glob, root.file_name)
    IN [queue |-> IF keep THEN <<root>> ELSE <<>>,
        max_level |-> cfg.max_level,
        show_hidden |-> cfg.show_all,
        include_glob |-> cfg.include_glob,
        stderr |-> <<>>]

FileIteratorNew(path, cfg) ==
    [queue |-> <<FileItemNew(path, 0, TRUE)>>,
     max_level |-> cfg.max_level,
     show_hidden |-> cfg.show_all,
     include_glob |-> cfg.include_glob,
     stderr |-> <<>>]

IsGlobIncluded(it, file_name) ==
    IF it.include_glob.some THEN GlobMatch(it.include_glob, file_name) ELSE TRUE

\* is_included that lets hidden directories through
IsIncludedHiddenDirs(it, name, is_dir) ==
    IF is_dir THEN TRUE
    ELSE IF ~it.show_hidden /\ StartsWithDot(name) THEN FALSE
    ELSE IsGlobIncluded(it, name)

\* is_included that applies the include pattern to directories too
IsIncludedGlobOnDirs(it, name, is_dir) ==
    IF ~it.show_hidden /\ StartsWithDot(name) THEN FALSE
    ELSE IsGlobIncluded(it, name)

IsIncluded(it, name, is_dir) ==
    IF ~it.show_hidden /\ StartsWithDot(name) THEN FALSE
    ELSE IF is_dir THEN TRUE
    ELSE IsGlobIncluded(it, name)

\* the orders in which the system may list the names
ListingOrders ==
    {o \in [1..Len(NameSeq) -> Names] :
        \A i, j \in 1..Len(NameSeq) : i # j => o[i] # o[j]}

\* The order in which the system lists entries where it is not under study:
\* not sorted either way.
ListingOrder == <<NameA, NameBR, NameDotR>>

\* fs::read_dir: the names in the directory, in the order the system lists them
ReadDir(path) ==
    LET names == DOMAIN Resolve(NodeAt(fs, path)).children
    IN SelectSeq(listing_order, LAMBDA n : n \in names)

RECURSIVE InsertReverse(_, _)
\* x placed into a sequence that is sorted by Reverse(name)
InsertReverse(x, s) ==
    IF s = <<>> THEN <<x>>
    ELSE IF LexLess(Head(s), x) THEN <<x>> \o s
    ELSE <<Head(s)>> \o InsertReverse(x, Tail(s))

RECURSIVE InsertAscending(_, _)
InsertAscending(x, s) ==
    IF s = <<>> THEN <<x>>
    ELSE IF LexLess(x, Head(s)) THEN <<x>> \o s
    ELSE <<Head(s)>> \o InsertAscending(x, Tail(s))

RECURSIVE SortByKeyPlain(_)
\* the sort with the Reverse left out of the key
SortByKeyPlain(s) ==
    IF s = <<>> THEN <<>>
    ELSE InsertAscending(s[Len(s)], SortByKeyPlain(SubSeq(s, 1, Len(s) - 1)))

\* push_dir without the sort: the entries as listed
NoSort(s) == s

RECURSIVE SortByKeyReverse(_)
\* dir_entries.sort_by_key(|b| Reverse(b.file_name()))
SortByKeyReverse(s) ==
    IF s = <<>> THEN <<>>
    ELSE InsertReverse(s[Len(s)], SortByKeyReverse(SubSeq(s, 1, Len(s) - 1)))

\* fs::read_dir or the collect of its entries returns Err
ReadDirFails(path) == NodeAt(fs, path).listing # "ok"

\* push_dir that gives up the whole traversal when a directory cannot be read
PushDirAbortOnError(it, item) ==
    IF ReadDirFails(item.path)
    THEN [it EXCEPT !.stderr = Append(@, item.path), !.queue = <<>>]
    ELSE
    LET dir_entries == SortByKeyReverse(ReadDir(item.path))
        mapped == [i \in 1..Len(dir_entries) |->
                      FileItemNew(Append(item.path, dir_entries[i]),
                                  item.level + 1, FALSE)]
        entries == SelectSeq(mapped,
                      LAMBDA e : IsIncluded(it, e.file_name, IsDir(e)))
        marked == IF entries # <<>>
                  THEN [entries EXCEPT ![1].is_last = TRUE]
                  ELSE entries
    IN [it EXCEPT !.queue = @ \o marked]

\* push_dir that sets is_last on the last element of the reversed vector
PushDirLastMut(it, item) ==
    IF ReadDirFails(item.path)
    THEN [it EXCEPT !.stderr = Append(@, item.path)]
    ELSE
    LET dir_entries == SortByKeyReverse(ReadDir(item.path))
        mapped == [i \in 1..Len(dir_entries) |->
                      FileItemNew(Append(item.path, dir_entries[i]),
                                  item.level + 1, FALSE)]
        entries == SelectSeq(mapped,
                      LAMBDA e : IsIncluded(it, e.file_name, IsDir(e)))
        marked == IF entries # <<>>
                  THEN [entries EXCEPT ![Len(entries)].is_last = TRUE]
                  ELSE entries
    IN [it EXCEPT !.queue = @ \o marked]

\* stderr holds the paths of the directories eprintln! has reported
PushDir(it, item) ==
    IF ReadDirFails(item.path)
    THEN [it EXCEPT !.stderr = Append(@, item.path)]
    ELSE
    LET dir_entries == SortByKeyReverse(ReadDir(item.path))
        mapped == [i \in 1..Len(dir_entries) |->
                      FileItemNew(Append(item.path, dir_entries[i]),
                                  item.level + 1, FALSE)]
        entries == SelectSeq(mapped,
                      LAMBDA e : IsIncluded(it, e.file_name, IsDir(e)))
        marked == IF entries # <<>>
                  THEN [entries EXCEPT ![1].is_last = TRUE]
                  ELSE entries
    IN [it EXCEPT !.queue = @ \o marked]

\* next() that expands a directory sitting at the level limit as well
FileIteratorNextAtLimit(it) ==
    IF it.queue # <<>>
    THEN LET item == it.queue[Len(it.queue)]
             popped == [it EXCEPT !.queue = SubSeq(@, 1, Len(@) - 1)]
         IN [iter |-> IF IsDir(item) /\ item.level <= it.max_level
                      THEN PushDir(popped, item)
                      ELSE popped,
             item |-> <<item>>]
    ELSE [iter |-> it, item |-> <<>>]

\* Iterator::next of FileIterator: the iterator afterwards and Option<FileItem>
FileIteratorNext(it) ==
    IF it.queue # <<>>
    THEN LET item == it.queue[Len(it.queue)]
             popped == [it EXCEPT !.queue = SubSeq(@, 1, Len(@) - 1)]
         IN [iter |-> IF IsDir(item) /\ item.level < it.max_level
                      THEN PushDir(popped, item)
                      ELSE popped,
             item |-> <<item>>]
    ELSE [iter |-> it, item |-> <<>>]

\* ------------------------------------------------------------------------
\* FilteredIterator
\* ------------------------------------------------------------------------

FilteredIteratorNew(iterator) ==
    [current |-> iterator, cache |-> <<>>, skip |-> FALSE, next_item |-> <<>>]

SkipFilter(f) == [f EXCEPT !.skip = TRUE]

RECURSIVE RemoveEmptyDirectoriesFromCache(_, _)
\* remove_empty_directories_from_cache that keeps a directory of the
\* incoming level
RECURSIVE KeepSameLevel(_, _)
KeepSameLevel(cache, item) ==
    IF cache = <<>> THEN cache
    ELSE IF cache[Len(cache)].level <= item.level THEN cache
    ELSE KeepSameLevel(SubSeq(cache, 1, Len(cache) - 1), item)

\* remove_empty_directories_from_cache that pops nothing
KeepCache(cache, item) == cache

RemoveEmptyDirectoriesFromCache(cache, item) ==
    IF cache = <<>> THEN cache
    ELSE IF cache[Len(cache)].level < item.level THEN cache
    ELSE RemoveEmptyDirectoriesFromCache(SubSeq(cache, 1, Len(cache) - 1), item)

\* the while loop of next() returning a directory at once instead of
\* keeping it in the cache
FilteredLoopNoCache(f, pulled) ==
    LET r == FileIteratorNext(f.current)
    IN IF r.item = <<>>
       THEN [iter |-> [f EXCEPT !.current = r.iter], item |-> <<>>,
             pulled |-> pulled]
       ELSE [iter |-> [f EXCEPT !.current = r.iter], item |-> r.item,
             pulled |-> Append(pulled, r.item[1])]

\* the while loop of next() returning a file at once and leaving the
\* directories above it in the cache for the calls that follow
RECURSIVE FilteredLoopFileAtOnce(_, _)
FilteredLoopFileAtOnce(f, pulled) ==
    LET r == FileIteratorNext(f.current)
    IN IF r.item = <<>>
       THEN [iter |-> [f EXCEPT !.current = r.iter], item |-> <<>>,
             pulled |-> pulled]
       ELSE LET item == r.item[1]
                cache1 == RemoveEmptyDirectoriesFromCache(f.cache, item)
                f1 == [f EXCEPT !.current = r.iter, !.cache = cache1]
            IN IF IsDir(item)
               THEN FilteredLoopFileAtOnce([f1 EXCEPT !.cache = Append(@, item)],
                                           Append(pulled, item))
               ELSE [iter |-> f1, item |-> <<item>>,
                     pulled |-> Append(pulled, item)]

RECURSIVE FilteredLoop(_, _)
\* the while loop of FilteredIterator::next; pulled: what current.next() gave
FilteredLoop(f, pulled) ==
    LET r == FileIteratorNext(f.current)
    IN IF r.item = <<>>
       THEN [iter |-> [f EXCEPT !.current = r.iter], item |-> <<>>,
             pulled |-> pulled]
       ELSE LET item == r.item[1]
                cache1 == RemoveEmptyDirectoriesFromCache(f.cache, item)
                f1 == [f EXCEPT !.current = r.iter, !.cache = cache1]
            IN IF IsDir(item)
               THEN FilteredLoop([f1 EXCEPT !.cache = Append(@, item)],
                                 Append(pulled, item))
               ELSE IF cache1 # <<>>
               THEN [iter |-> [f1 EXCEPT !.cache = Tail(@),
                                         !.next_item = <<item>>],
                     item |-> <<Head(cache1)>>,
                     pulled |-> Append(pulled, item)]
               ELSE [iter |-> f1, item |-> <<item>>,
                     pulled |-> Append(pulled, item)]

\* next() that never hands out the deferred file
FilteredNextNoTake(f) ==
    IF f.skip
    THEN LET r == FileIteratorNext(f.current)
         IN [iter |-> [f EXCEPT !.current = r.iter], item |-> r.item,
             pulled |-> r.item]
    ELSE IF f.cache # <<>>
    THEN [iter |-> [f EXCEPT !.cache = Tail(@)], item |-> <<Head(f.cache)>>,
          pulled |-> <<>>]
    ELSE FilteredLoop(f, <<>>)

\* next() that drains the cache from the back
FilteredNextPopBack(f) ==
    IF f.skip
    THEN LET r == FileIteratorNext(f.current)
         IN [iter |-> [f EXCEPT !.current = r.iter], item |-> r.item,
             pulled |-> r.item]
    ELSE IF f.cache # <<>>
    THEN [iter |-> [f EXCEPT !.cache = SubSeq(@, 1, Len(@) - 1)],
          item |-> <<f.cache[Len(f.cache)]>>,
          pulled |-> <<>>]
    ELSE IF f.next_item # <<>>
    THEN [iter |-> [f EXCEPT !.next_item = <<>>], item |-> f.next_item,
          pulled |-> <<>>]
    ELSE FilteredLoop(f, <<>>)

\* next() that hands out the deferred file before the directories still
\* in the cache
FilteredNextFileFirst(f) ==
    IF f.skip
    THEN LET r == FileIteratorNext(f.current)
         IN [iter |-> [f EXCEPT !.current = r.iter], item |-> r.item,
             pulled |-> r.item]
    ELSE IF f.next_item # <<>>
    THEN [iter |-> [f EXCEPT !.next_item = <<>>], item |-> f.next_item,
          pulled |-> <<>>]
    ELSE IF f.cache # <<>>
    THEN [iter |-> [f EXCEPT !.cache = Tail(@)], item |-> <<Head(f.cache)>>,
          pulled |-> <<>>]
    ELSE FilteredLoop(f, <<>>)

\* Iterator::next of FilteredIterator
FilteredNext(f) ==
    IF f.skip
    THEN LET r == FileIteratorNext(f.current)
         IN [iter |-> [f EXCEPT !.current = r.iter], item |-> r.item,
             pulled |-> r.item]
    ELSE IF f.cache # <<>>
    THEN [iter |-> [f EXCEPT !.cache = Tail(@)], item |-> <<Head(f.cache)>>,
          pulled |-> <<>>]
    ELSE IF f.next_item # <<>>
    THEN [iter |-> [f EXCEPT !.next_item = <<>>], item |-> f.next_item,
          pulled |-> <<>>]
    ELSE FilteredLoop(f, <<>>)

\* ------------------------------------------------------------------------
\* symbol: the prefix of a line
\* ------------------------------------------------------------------------

\* the glyphs, as code points: U+2500, U+251C, U+2502, U+2514 and ' '
HOR == 9472
CRO == 9500
VER == 9474
END == 9492
SPACE == 32

\* set_line_prefix without the prefix.clear()
SetLinePrefixNoClear(list, buffer) ==
    LET len == Len(list)
        index == IF len = 0 THEN 0 ELSE len - 1
        RECURSIVE Columns(_)
        Columns(i) ==
            IF i > index THEN <<>>
            ELSE <<IF list[i] THEN VER ELSE SPACE, SPACE, SPACE, SPACE>>
                 \o Columns(i + 1)
    IN buffer
       \o Columns(1)
       \o (IF len > 0
           THEN <<IF list[len] THEN CRO ELSE END, HOR, HOR, SPACE>>
           ELSE <<>>)

\* set_line_prefix that draws the last column like the others
SetLinePrefixNoBranch(list, buffer) ==
    LET RECURSIVE Columns(_)
        Columns(i) ==
            IF i > Len(list) THEN <<>>
            ELSE <<IF list[i] THEN VER ELSE SPACE, SPACE, SPACE, SPACE>>
                 \o Columns(i + 1)
    IN Columns(1)

\* set_line_prefix: the buffer afterwards
SetLinePrefix(list, buffer) ==
    LET len == Len(list)
        index == IF len = 0 THEN 0 ELSE len - 1
        cleared == SubSeq(buffer, 1, 0)
        RECURSIVE Columns(_)
        Columns(i) ==
            IF i > index THEN <<>>
            ELSE <<IF list[i] THEN VER ELSE SPACE, SPACE, SPACE, SPACE>>
                 \o Columns(i + 1)
    IN cleared
       \o Columns(1)
       \o (IF len > 0
           THEN <<IF list[len] THEN CRO ELSE END, HOR, HOR, SPACE>>
           ELSE <<>>)

\* ------------------------------------------------------------------------
\* format_human_readable_size.  A length in bytes is a pair: mant * 1024^exp
\* (u64, so below 2^64 = 16 * 1024^6); dividing by 1024.0 is exact in f64
\* for these values and lowers the exponent, below zero if need be.
\* ------------------------------------------------------------------------
UNITS == <<"B", "KB", "MB", "GB", "TB", "PB">>

RECURSIVE Pow1024(_)
Pow1024(n) == IF n = 0 THEN 1 ELSE 1024 * Pow1024(n - 1)

Bytes(m, k) == [mant |-> m, exp |-> k]

\* the u64 values considered
Sizes ==
    {b \in [mant : 0..MaxMantissa, exp : 0..Len(UNITS)] :
        /\ b.exp = Len(UNITS) => b.mant < 16
        /\ b.exp = Len(UNITS) - 1 => b.mant < 16 * 1024}

\* size >= 1024.0, for size = mant * 1024^e with mant below 1024^3
SizeAtLeast1024(mant, e) ==
    IF mant = 0 THEN FALSE
    ELSE IF e >= 1 THEN TRUE
    ELSE IF e <= -2 THEN FALSE
    ELSE mant >= Pow1024(1 - e)

RECURSIVE SizeLoop(_, _, _)
\* while size >= 1024.0 && unit_index < UNITS.len() - 1
SizeLoop(mant, e, unit_index) ==
    IF SizeAtLeast1024(mant, e) /\ unit_index < Len(UNITS) - 1
    THEN SizeLoop(mant, e - 1, unit_index + 1)
    ELSE [mant |-> mant, e |-> e, unit_index |-> unit_index]

\* size < 10.0
SizeBelowTen(mant, e) ==
    IF e >= 1 THEN mant = 0
    ELSE mant < 10 * Pow1024(-e)

\* n / d rounded to the nearest integer, a tie to the even one, as the
\* float formatter rounds the exact decimal expansion
RoundHalfEven(n, d) ==
    LET q == n \div d
        r == n % d
    IN IF 2 * r > d \/ (2 * r = d /\ q % 2 = 1) THEN q + 1 ELSE q

\* format!("{:.1}", size)
FormatOneDecimal(mant, e) ==
    LET t == IF e >= 0 THEN 10 * mant * Pow1024(e)
             ELSE RoundHalfEven(10 * mant, Pow1024(-e))
    IN ToString(t \div 10) \o "." \o ToString(t % 10)

\* format!("{:.0}", size)
FormatNoDecimal(mant, e) ==
    IF e >= 0 THEN ToString(mant * Pow1024(e))
    ELSE ToString(RoundHalfEven(mant, Pow1024(-e)))

\* format_human_readable_size that always prints one decimal above bytes
FormatHumanReadableSizeOneDecimal(bytes) ==
    IF bytes.mant = 0 THEN "0B"
    ELSE LET size == SizeLoop(bytes.mant, bytes.exp, 0)
             formatted ==
                 IF size.unit_index = 0
                 THEN ToString(bytes.mant * Pow1024(bytes.exp))
                 ELSE FormatOneDecimal(size.mant, size.e)
         IN formatted \o UNITS[size.unit_index + 1]

FormatHumanReadableSize(bytes) ==
    IF bytes.mant = 0 THEN "0B"
    ELSE LET size == SizeLoop(bytes.mant, bytes.exp, 0)
             formatted ==
                 IF size.unit_index = 0
                 THEN ToString(bytes.mant * Pow1024(bytes.exp))
                 ELSE IF SizeBelowTen(size.mant, size.e)
                 THEN FormatOneDecimal(size.mant, size.e)
                 ELSE FormatNoDecimal(size.mant, size.e)
         IN formatted \o UNITS[size.unit_index + 1]

\* ------------------------------------------------------------------------
\* DirTree
\* ------------------------------------------------------------------------

\* cal_symbol_switch without the loop that pops down to the level
CalSymbolSwitchNoPop(list, level, is_last) ==
    LET pushed == IF level > Len(list) THEN Append(list, TRUE) ELSE list
    IN IF Len(pushed) > 0
       THEN [pushed EXCEPT ![Len(pushed)] = ~is_last]
       ELSE pushed

CalSymbolSwitch(list, level, is_last) ==
    LET cut == IF Len(list) > level THEN SubSeq(list, 1, level) ELSE list
        pushed == IF level > Len(cut) THEN Append(cut, TRUE) ELSE cut
    IN IF Len(pushed) > 0
       THEN [pushed EXCEPT ![Len(pushed)] = ~is_last]
       ELSE pushed

\* get_iterator that leaves the filter active whatever the configuration
GetIteratorNoSkip(path, cfg) ==
    FilteredIteratorNew(FileIteratorNew(path, cfg))

\* get_iterator that bypasses the filter whatever the configuration
GetIteratorSkipAlways(path, cfg) ==
    SkipFilter(FilteredIteratorNew(FileIteratorNew(path, cfg)))

GetIterator(path, cfg) ==
    LET list == FilteredIteratorNew(FileIteratorNew(path, cfg))
    IN IF ~cfg.include_glob.some THEN SkipFilter(list) ELSE list

\* print_line: what follows the name when the metadata could not be read
ErrorMarker == " [Error File]"

\* What goes to the terminal for one name: text holds the strings written,
\* ops the calls in order: "fg <color>", "write", "reset".

WriteColor(cfg, color, str) ==
    [text |-> <<str>>,
     ops |-> IF cfg.colorful THEN <<"fg " \o color, "write", "reset">>
             ELSE <<"write">>]

\* is_executable (unix): a regular file with a bit of 0o111 set
IsExecutable(metadata) == metadata.kind = "file" /\ metadata.exec

PrintPath(file_name, metadata, cfg) ==
    LET name == IF metadata.kind = "dir"
                THEN WriteColor(cfg, "BRIGHT_BLUE", file_name)
                ELSE IF IsExecutable(metadata)
                THEN WriteColor(cfg, "BRIGHT_RED", file_name)
                ELSE [text |-> <<file_name>>, ops |-> <<"write">>]
        size == IF cfg.human_readable /\ metadata.kind = "file"
                THEN WriteColor(cfg, "BRIGHT_BLACK",
                        " [" \o FormatHumanReadableSize(metadata.len) \o "]")
                ELSE [text |-> <<>>, ops |-> <<>>]
    IN [text |-> name.text \o size.text, ops |-> name.ops \o size.ops]

\* print_line; entry.metadata is what the snapshot holds at the entry's path
PrintLine(entry, line_prefix) ==
    LET out == IF entry.kind # "err"
               THEN PrintPath(entry.file_name, NodeAt(fs, entry.path), config)
               ELSE [text |-> <<entry.file_name, ErrorMarker>>,
                     ops |-> <<"write">>]
    IN [entry |-> entry, prefix |-> line_prefix,
        text |-> out.text, ops |-> out.ops]

DirSummaryInit == [num_folders |-> 0, num_files |-> 0]

\* the subtraction wrapping around below zero (usize::MAX for 0 - 1)
WrappingSub(a, b) == IF a >= b THEN a - b ELSE UsizeMax - (b - a) + 1

\* the count left as it is
NoSub(a, b) == a

SaturatingSub(a, b) == IF a >= b THEN a - b ELSE 0

\* status of a process whose main returns
ExitSuccess == 0

Init ==
    /\ fs \in {DirNode(c) : c \in Trees}
    /\ config \in Configs
    /\ args = PlainArgs
    /\ listing_order = ListingOrder
    /\ first_run = <<>>
    /\ iter = GetIterator(<<>>, config)
    /\ symbol_switch_list = <<>>
    /\ prefix = <<>>
    /\ summary = DirSummaryInit
    /\ printed = <<>>
    /\ summary_line = <<>>
    /\ exit_status = <<>>
    /\ walked = <<>>
    /\ pc = "loop"

\* one turn of the for loop of print_folders: the iterator yields an entry
PrintEntry ==
    /\ pc = "loop"
    /\ LET r == FilteredNext(iter)
       IN /\ r.item # <<>>
          /\ LET entry == r.item[1]
                 list == CalSymbolSwitch(symbol_switch_list, entry.level,
                                         entry.is_last)
                 line_prefix == SetLinePrefix(list, prefix)
             IN /\ symbol_switch_list' = list
                /\ summary' = IF IsDir(entry)
                              THEN [summary EXCEPT !.num_folders = @ + 1]
                              ELSE [summary EXCEPT !.num_files = @ + 1]
                /\ prefix' = line_prefix
                /\ printed' = Append(printed,
                                 PrintLine(entry, line_prefix)
                                    @@ [switches |-> list])
          /\ iter' = r.iter
          /\ walked' = walked \o r.pulled
    /\ UNCHANGED <<fs, config, args, listing_order, first_run, summary_line, exit_status, pc>>

\* the iterator is exhausted: print_folders returns and main writes the summary
Finish ==
    /\ pc = "loop"
    /\ LET r == FilteredNext(iter)
           folders == SaturatingSub(summary.num_folders, 1)
       IN /\ r.item = <<>>
          /\ iter' = r.iter
          /\ walked' = walked \o r.pulled
          /\ summary' = [summary EXCEPT !.num_folders = folders]
          /\ summary_line' = <<folders, " directories, ", summary.num_files,
                               " files">>
    /\ exit_status' = <<ExitSuccess>>
    /\ pc' = "done"
    /\ UNCHANGED <<fs, config, args, listing_order, first_run, symbol_switch_list, prefix, printed>>

Next == PrintEntry \/ Finish

Spec == Init /\ [][Next]_vars

\* The same program over the snapshots with faults.
InitFaults ==
    /\ fs \in FaultRoots
    /\ config \in {c \in Configs : ~c.exclude_glob.some /\ ~c.show_all}
    /\ args = PlainArgs
    /\ listing_order = ListingOrder
    /\ first_run = <<>>
    /\ iter = GetIterator(<<>>, config)
    /\ symbol_switch_list = <<>>
    /\ prefix = <<>>
    /\ summary = DirSummaryInit
    /\ printed = <<>>
    /\ summary_line = <<>>
    /\ exit_status = <<>>
    /\ walked = <<>>
    /\ pc = "loop"

SpecFaults == InitFaults /\ [][Next]_vars

\* ------------------------------------------------------------------------
\* Vocabulary of the properties
\* ------------------------------------------------------------------------

Entries(lines) == [i \in 1..Len(lines) |-> lines[i].entry]
PathsOf(items) == [i \in 1..Len(items) |-> items[i].path]
PathSet(items) == {items[i].path : i \in 1..Len(items)}
FilesOf(items) == SelectSeq(items, LAMBDA e : ~IsDir(e))

\* p is q or an ancestor of q
IsPathPrefix(p, q) == Len(p) <= Len(q) /\ SubSeq(q, 1, Len(p)) = p
IsAncestor(p, q) == Len(p) < Len(q) /\ IsPathPrefix(p, q)
Parent(p) == SubSeq(p, 1, Len(p) - 1)

RECURSIVE PathsUnder(_, _)
\* the paths of all nodes of the snapshot at or below a node
PathsUnder(node, path) ==
    {path} \cup UNION {PathsUnder(node.children[n], Append(path, n)) :
                          n \in DOMAIN node.children}

AllPaths == PathsUnder(fs, <<>>)
KindAt(p) == NodeAt(fs, p).kind
NameOf(p) == p[Len(p)]

HasHiddenPart(p) == \E k \in 1..Len(p) : StartsWithDot(p[k])

\* a node the configuration lets the Walker reach: within the depth limit, not
\* hidden or below a hidden directory unless hidden names are shown, and, for
\* a non-directory, matching the include pattern if there is one
Reachable(p) ==
    /\ Len(p) <= config.max_level
    /\ config.show_all \/ ~HasHiddenPart(p)
    /\ \/ p = <<>>
       \/ KindAt(p) = "dir"
       \/ ~config.include_glob.some
       \/ GlobMatch(config.include_glob, NameOf(p))

ReachablePaths == {p \in AllPaths : Reachable(p)}

RECURSIVE IsSubseq(_, _)
\* s is t with some elements left out
IsSubseq(s, t) ==
    IF s = <<>> THEN TRUE
    ELSE IF t = <<>> THEN FALSE
    ELSE IF Head(s) = Head(t) THEN IsSubseq(Tail(s), Tail(t))
    ELSE IsSubseq(s, Tail(t))

ElisionActive == ~iter.skip

HoldsMatchingFile(p) ==
    \E q \in AllPaths :
        /\ IsAncestor(p, q)
        /\ KindAt(q) # "dir"
        /\ GlobMatch(config.include_glob, NameOf(q))
        /\ ~(config.exclude_glob.some /\ GlobMatch(config.exclude_glob, NameOf(q)))

DirEmittedOnlyIfMatchingFile ==
    config.include_glob.some =>
        \A i \in 1..Len(printed) :
            IsDir(printed[i].entry) => HoldsMatchingFile(printed[i].entry.path)

\* ------------------------------------------------------------------------
\* C3: in active mode the non-directory items the filter has emitted, followed
\* by the deferred one, are the non-directory items the Walker has returned,
\* in the same order; nothing is deferred when the run ends; and the filter's
\* output is the Walker's output with some items left out.
\* ------------------------------------------------------------------------
ElisionKeepsFiles ==
    ElisionActive =>
        /\ FilesOf(walked) = FilesOf(Entries(printed)) \o iter.next_item
        /\ pc = "done" => iter.next_item = <<>>
        /\ IsSubseq(Entries(printed), walked)

\* a finished active run that deferred a file and dropped a directory
ElisionKeepsFilesWitness ==
    /\ pc = "done"
    /\ ElisionActive
    /\ Len(FilesOf(Entries(printed))) >= 2
    /\ Len(printed) < Len(walked)
    /\ \E i \in 2..Len(printed) :
          IsDir(printed[i - 1].entry) /\ ~IsDir(printed[i].entry)

\* ------------------------------------------------------------------------
\* C4: in active mode a directory is emitted at most once, after each of its
\* ancestors and before every file of its subtree; the chain
\* root/a/a/a/b.r under the pattern *.r is emitted as root, a, a/a, a/a/a,
\* a/a/a/b.r.
\* ------------------------------------------------------------------------
ChainTree ==
    DirNode(NameA :> DirNode(NameA :> DirNode(NameA :> DirNode(NameBR :> FileNode))))

ChainPaths ==
    <<<<>>, <<NameA>>, <<NameA, NameA>>, <<NameA, NameA, NameA>>,
      <<NameA, NameA, NameA, NameBR>>>>

ChainRun ==
    /\ fs = ChainTree
    /\ config.include_glob = GlobStarDotR
    /\ ~config.exclude_glob.some
    /\ config.max_level = UsizeMax
    /\ pc = "done"

ElisionDirOrder ==
    LET out == Entries(printed)
        n == Len(printed)
    IN /\ ElisionActive =>
            \A i \in 1..n :
                IsDir(out[i]) =>
                    /\ \A j \in 1..n : j # i => out[j].path # out[i].path
                    /\ \A k \in 0..(Len(out[i].path) - 1) :
                          \E j \in 1..(i - 1) :
                              out[j].path = SubSeq(out[i].path, 1, k)
                    /\ \A j \in 1..n :
                          (~IsDir(out[j]) /\ IsAncestor(out[i].path, out[j].path))
                              => i < j
       /\ ChainRun => PathsOf(out) = ChainPaths

ElisionDirOrderWitness == ChainRun /\ Len(printed) = 5

\* ------------------------------------------------------------------------
\* C5: without an include pattern the filter is in bypass mode and what it
\* emits is what the Walker returned, item for item; empty directories the
\* Walker returned are emitted; a root holding the empty directory a and the
\* file b.r gives the lines root, a, b.r and "1 directories, 1 files".
\* ------------------------------------------------------------------------
ScenarioATree == DirNode((NameA :> DirNode(NoChildren)) @@ (NameBR :> FileNode))

ScenarioARun ==
    /\ fs = ScenarioATree
    /\ ~config.include_glob.some
    /\ config.max_level >= 1
    /\ pc = "done"

BypassIsIdentity ==
    /\ ~config.include_glob.some =>
          /\ iter.skip
          /\ Entries(printed) = walked
          /\ pc = "done" =>
                \A p \in ReachablePaths : p \in PathSet(Entries(printed))
    /\ ScenarioARun =>
          /\ PathsOf(Entries(printed)) = <<<<>>, <<NameA>>, <<NameBR>>>>
          /\ summary_line = <<1, " directories, ", 1, " files">>

BypassIsIdentityWitness == ScenarioARun /\ Len(printed) = 3

\* ------------------------------------------------------------------------
\* C6: no item the Walker returns and no emitted item lies deeper than
\* max_level (an item's level being the length of its path); with
\* max_level = 0 only the root can appear.
\* ------------------------------------------------------------------------
DepthLimit ==
    /\ \A i \in 1..Len(walked) :
          /\ walked[i].level <= config.max_level
          /\ Len(walked[i].path) <= config.max_level
    /\ \A i \in 1..Len(printed) :
          /\ printed[i].entry.level <= config.max_level
          /\ Len(printed[i].entry.path) <= config.max_level
    /\ config.max_level = 0 => PathSet(walked) \subseteq {<<>>}

\* a finished run with max_level = 1 that emitted a directory holding entries
DepthLimitWitness ==
    /\ pc = "done"
    /\ config.max_level = 1
    /\ \E i \in 1..Len(printed) :
          /\ printed[i].entry.level = 1
          /\ IsDir(printed[i].entry)
          /\ DOMAIN NodeAt(fs, printed[i].entry.path).children # {}

NotHiddenAway(p) == config.show_all \/ ~HasHiddenPart(p)

ExcludedFilesNeverEmitted ==
    config.exclude_glob.some =>
        \A i \in 1..Len(printed) :
            printed[i].entry.kind = "file"
               => ~GlobMatch(config.exclude_glob, printed[i].entry.file_name)

\* ------------------------------------------------------------------------
\* C10: with an exclude pattern, no directory whose name matches it is
\* emitted and nothing below such a directory is emitted.
\* ------------------------------------------------------------------------
ExcludedDirsNeverEmitted ==
    config.exclude_glob.some =>
        \A i \in 1..Len(printed) :
            LET e == printed[i].entry
            IN \A k \in 1..Len(e.path) :
                  KindAt(SubSeq(e.path, 1, k)) = "dir"
                     => ~GlobMatch(config.exclude_glob, e.path[k])

\* ------------------------------------------------------------------------
\* C11: when print_folders has finished, the directory count of the summary
\* is the number of directory entries emitted minus one and the file count
\* is the number of non-directory entries emitted.
\* ------------------------------------------------------------------------
NumDirs(items) == Len(SelectSeq(items, IsDir))
NumFiles(items) == Len(FilesOf(items))

\* the claim as stated
SummaryIsDirsMinusOne ==
    pc = "done" =>
        /\ summary.num_folders = NumDirs(Entries(printed)) - 1
        /\ summary.num_files = NumFiles(Entries(printed))

\* C11 as amended: the directory count is the number of directory entries
\* emitted minus one when a directory was emitted and 0 when none was; the
\* file count is the number of non-directory entries emitted; the summary
\* line shows these two numbers.  Inside the loop the counters are the
\* numbers of directory and non-directory entries emitted so far.
SummaryCounts ==
    LET dirs == NumDirs(Entries(printed))
        files == NumFiles(Entries(printed))
    IN /\ pc = "loop" =>
             summary = [num_folders |-> dirs, num_files |-> files]
       /\ pc = "done" =>
             /\ summary.num_folders = IF dirs >= 1 THEN dirs - 1 ELSE 0
             /\ summary.num_files = files
             /\ summary_line = <<summary.num_folders, " directories, ",
                                 summary.num_files, " files">>

\* a finished run that emitted the root, another directory and a file
SummaryCountsWitness ==
    /\ pc = "done"
    /\ NumDirs(Entries(printed)) >= 2
    /\ NumFiles(Entries(printed)) >= 1

\* ------------------------------------------------------------------------
\* C12: when the root does not exist or cannot be read, the process ends
\* with a non-zero status and prints neither a tree nor a summary; in every
\* other case it ends with status zero.
\* ------------------------------------------------------------------------
RootUntraversable == fs.kind = "err" \/ (fs.kind = "dir" /\ fs.listing # "ok")

RootUnreadableExitsNonZero ==
    pc = "done" =>
        IF RootUntraversable
        THEN exit_status # <<ExitSuccess>> /\ printed = <<>> /\ summary_line = <<>>
        ELSE exit_status = <<ExitSuccess>>

\* ------------------------------------------------------------------------
\* C13: a directory below the root that cannot be listed (read_dir fails or
\* one entry of the listing fails) is itself returned by the Walker (and
\* emitted in bypass mode), nothing below it is returned, one diagnostic is
\* written for it, the walk goes on: at exhaustion exactly the entries not
\* below an unlistable directory (and passing the depth, hidden and pattern
\* rules) were returned, siblings in ascending name order; and the run ends
\* with the summary written and status zero.
\* ------------------------------------------------------------------------
Unlistable(p) == KindAt(p) = "dir" /\ NodeAt(fs, p).listing # "ok"

BelowUnlistable(p) ==
    \E k \in 0..(Len(p) - 1) : Unlistable(SubSeq(p, 1, k))

FaultReachablePaths == {p \in ReachablePaths : ~BelowUnlistable(p)}

UnreadableDirSkipped ==
    LET w == walked
        n == Len(walked)
        failed == SelectSeq(PathsOf(w),
                     LAMBDA p : Unlistable(p) /\ Len(p) < config.max_level)
    IN /\ \A i, j \in 1..n :
             Unlistable(w[i].path) => ~IsAncestor(w[i].path, w[j].path)
       /\ iter.current.stderr = failed
       /\ \A i, j \in 1..n :
             (i < j /\ w[i].path # <<>> /\ Len(w[i].path) = Len(w[j].path)
                /\ Parent(w[i].path) = Parent(w[j].path))
                => LexLess(w[i].file_name, w[j].file_name)
       /\ ~ElisionActive => Entries(printed) = w
       /\ pc = "done" =>
             /\ PathSet(w) = FaultReachablePaths
             /\ exit_status = <<ExitSuccess>>
             /\ summary_line # <<>>

\* a finished run in which a directory below the root holding entries could
\* not be listed and an entry after it was still emitted
UnreadableDirSkippedWitness ==
    /\ pc = "done"
    /\ \E i \in 2..Len(printed) :
          /\ Unlistable(printed[i].entry.path)
          /\ DOMAIN NodeAt(fs, printed[i].entry.path).children # {}
          /\ printed[i].entry.level < config.max_level
          /\ i < Len(printed)
    /\ iter.current.stderr # <<>>

\* ------------------------------------------------------------------------
\* C14: an entry whose metadata cannot be read is returned by the Walker
\* like a non-directory (when it is within the limits that apply to files),
\* is_dir is false for it, the filter in active mode emits it with all its
\* ancestors before it, it is counted as a file, and its line carries the
\* error marker, which no other line does.
\* ------------------------------------------------------------------------
MetadataErrorIsFile ==
    /\ \A i \in 1..Len(walked) : walked[i].kind = "err" => ~IsDir(walked[i])
    /\ pc = "done" =>
          /\ \A p \in FaultReachablePaths :
                KindAt(p) = "err" =>
                   /\ p \in PathSet(walked)
                   /\ p \in PathSet(Entries(printed))
          /\ summary.num_files =
                Cardinality({i \in 1..Len(printed) :
                                printed[i].entry.kind \in {"file", "err"}})
    /\ \A i \in 1..Len(printed) :
          LET e == printed[i].entry
          IN /\ e.kind = "err" =>
                   \A k \in 0..(Len(e.path) - 1) :
                       \E j \in 1..(i - 1) :
                           printed[j].entry.path = SubSeq(e.path, 1, k)
             /\ printed[i].text = IF e.kind = "err"
                                  THEN <<e.file_name, ErrorMarker>>
                                  ELSE <<e.file_name>>

\* a finished run in active mode that emitted an entry with unreadable
\* metadata two levels down
MetadataErrorIsFileWitness ==
    /\ pc = "done"
    /\ ElisionActive
    /\ \E i \in 1..Len(printed) :
          printed[i].entry.kind = "err" /\ printed[i].entry.level = 2

\* ------------------------------------------------------------------------
\* C15: after cal_symbol_switch, for every emitted entry in bypass and in
\* elision mode, the vector is as long as the entry's level, its last
\* element (when the level is positive) is the negation of is_last, and it
\* is empty for the root; the vector kept between lines is the one of the
\* last line.
\* ------------------------------------------------------------------------
LevelStateMatchesEntry ==
    /\ \A i \in 1..Len(printed) :
          LET e == printed[i].entry
              v == printed[i].switches
          IN /\ Len(v) = e.level
             /\ e.level > 0 => v[e.level] = ~e.is_last
             /\ e.path = <<>> => v = <<>>
    /\ symbol_switch_list = IF printed = <<>> THEN <<>>
                            ELSE printed[Len(printed)].switches

\* a line two levels down was followed by a line one level down, with the
\* filter active
LevelStateMatchesEntryWitness ==
    /\ ElisionActive
    /\ \E i \in 1..(Len(printed) - 1) :
          printed[i].entry.level = 2 /\ printed[i + 1].entry.level = 1

\* ------------------------------------------------------------------------
\* C16: at every printed line, element i (counted from 1) of the vector is
\* true iff the node at depth i on the path of the line's entry has a
\* sibling that is printed on a later line, in bypass and in elision mode.
\* ------------------------------------------------------------------------
PrintedLaterSibling(k, i) ==
    LET p == SubSeq(printed[k].entry.path, 1, i)
    IN \E j \in (k + 1)..Len(printed) :
          LET q == printed[j].entry.path
          IN Len(q) = i /\ q # p /\ Parent(q) = Parent(p)

SwitchIffLaterPrintedSibling ==
    pc = "done" =>
        \A k \in 1..Len(printed) :
            \A i \in 1..Len(printed[k].switches) :
                printed[k].switches[i] <=> PrintedLaterSibling(k, i)

\* ------------------------------------------------------------------------
\* set_line_prefix alone: one call on any vector of at most MaxSwitches
\* elements and a buffer that holds what an earlier call left in it
\* ------------------------------------------------------------------------
SwitchLists ==
    UNION {[1..n -> BOOLEAN] : n \in 0..MaxSwitches}

\* what the reused buffer can hold: nothing, or an earlier line's prefix
UsedBuffers ==
    {SetLinePrefix(v, <<>>) : v \in UNION {[1..n -> BOOLEAN] : n \in 0..2}}

InitPrefix ==
    /\ symbol_switch_list \in SwitchLists
    /\ prefix \in UsedBuffers
    /\ fs = DirNode(NoChildren)
    /\ config = [show_all |-> FALSE, max_level |-> UsizeMax,
                 include_glob |-> NoGlob, exclude_glob |-> NoGlob,
                 colorful |-> FALSE, size |-> FALSE, human_readable |-> FALSE]
    /\ args = PlainArgs
    /\ listing_order = ListingOrder
    /\ first_run = <<>>
    /\ iter = GetIterator(<<>>, config)
    /\ summary = DirSummaryInit
    /\ printed = <<>>
    /\ summary_line = <<>>
    /\ exit_status = <<>>
    /\ walked = <<>>
    /\ pc = "prefix"

\* the call set_line_prefix(&symbol_switch_list, &mut prefix), made twice
\* in a row; printed records (history) the buffer before each call, the
\* vector after it and the result
SetLinePrefixCall ==
    /\ pc \in {"prefix", "rendered"}
    /\ prefix' = SetLinePrefix(symbol_switch_list, prefix)
    /\ printed' = Append(printed,
                     [before |-> prefix, switches |-> symbol_switch_list,
                      prefix |-> SetLinePrefix(symbol_switch_list, prefix)])
    /\ pc' = IF pc = "prefix" THEN "rendered" ELSE "rendered twice"
    /\ UNCHANGED <<fs, config, args, listing_order, first_run, iter, symbol_switch_list, summary,
                   summary_line, exit_status, walked>>

NextPrefix == SetLinePrefixCall

SpecPrefix == InitPrefix /\ [][NextPrefix]_vars

\* ------------------------------------------------------------------------
\* C17: the prefix has exactly four characters per element of the vector:
\* for every index but the last U+2502 and three spaces when the element is
\* true and four spaces when false; for the last index U+251C U+2500 U+2500
\* space when true and U+2514 U+2500 U+2500 space when false; the empty
\* vector gives the empty string.
\* ------------------------------------------------------------------------
PrefixLayout ==
    pc # "prefix" =>
        LET v == symbol_switch_list
            n == Len(symbol_switch_list)
            Block(i) == SubSeq(prefix, 4 * (i - 1) + 1, 4 * i)
        IN /\ Len(prefix) = 4 * n
           /\ n = 0 => prefix = <<>>
           /\ \A i \in 1..n :
                 Block(i) =
                    IF i < n
                    THEN (IF v[i] THEN <<9474, 32, 32, 32>>
                                  ELSE <<32, 32, 32, 32>>)
                    ELSE (IF v[i] THEN <<9500, 9472, 9472, 32>>
                                  ELSE <<9492, 9472, 9472, 32>>)

\* a call on a vector of three elements with both values before the last
PrefixLayoutWitness ==
    /\ pc = "rendered"
    /\ symbol_switch_list = <<TRUE, FALSE, TRUE>>
    /\ Len(prefix) = 12

\* ------------------------------------------------------------------------
\* C18: the result of set_line_prefix depends on the vector alone: two
\* calls in a row on the same vector give the same string, whatever the
\* buffer held before a call it holds afterwards what a call on an empty
\* buffer gives, and the vector after a call is the vector before it.
\* ------------------------------------------------------------------------
PrefixIgnoresOldBuffer ==
    /\ \A i \in 1..Len(printed) :
          /\ printed[i].prefix = SetLinePrefix(symbol_switch_list, <<>>)
          /\ printed[i].switches = symbol_switch_list
    /\ \A i, j \in 1..Len(printed) : printed[i].prefix = printed[j].prefix
    /\ pc # "prefix" => prefix = printed[Len(printed)].prefix

\* two calls were made on a non-empty vector, the first on a buffer that
\* held a longer prefix than the result
PrefixIgnoresOldBufferWitness ==
    /\ pc = "rendered twice"
    /\ Len(symbol_switch_list) = 1
    /\ Len(printed[1].before) > Len(printed[1].prefix)
    /\ printed[2].before = printed[1].prefix

\* ------------------------------------------------------------------------
\* C19: in active mode, after every call of FilteredIterator::next, the
\* cache holds no more directories than the greatest level of a directory
\* the Walker has returned so far, and no more than the level of the entry
\* the Walker returned last.
\* ------------------------------------------------------------------------
RECURSIVE MaxDirLevel(_)
MaxDirLevel(items) ==
    IF items = <<>> THEN 0
    ELSE LET m == MaxDirLevel(Tail(items))
             l == IF IsDir(Head(items)) THEN Head(items).level ELSE 0
         IN IF l > m THEN l ELSE m

NoFileMatches ==
    /\ config.include_glob.some
    /\ \A q \in AllPaths :
          KindAt(q) # "dir" => ~GlobMatch(config.include_glob, NameOf(q))

ScenarioBTree == DirNode((NameA :> FileNode) @@ (NameBR :> DirNode(NoChildren)))

ScenarioBRun ==
    /\ fs = ScenarioBTree
    /\ config.include_glob = GlobStarDotR
    /\ config.max_level >= 1
    /\ pc = "done"

NothingMatchesNothingEmitted ==
    /\ NoFileMatches =>
          /\ printed = <<>>
          /\ summary = DirSummaryInit
          /\ pc = "done" => summary_line = <<0, " directories, ", 0, " files">>
    /\ ScenarioBRun =>
          /\ printed = <<>>
          /\ PathsOf(walked) = <<<<>>, <<NameBR>>>>
          /\ summary_line = <<0, " directories, ", 0, " files">>

NothingMatchesNothingEmittedWitness ==
    ScenarioBRun /\ Len(walked) = 2 /\ Len(iter.cache) = 2

\* ------------------------------------------------------------------------
\* The runs of Spec that are made without an exclude pattern:
\* FileIterator::new takes max_level, show_all and include_glob from the
\* configuration and nothing else
\* ------------------------------------------------------------------------
InitInclude ==
    /\ fs \in {DirNode(c) : c \in Trees}
    /\ config \in {c \in Configs : ~c.exclude_glob.some}
    /\ args = PlainArgs
    /\ listing_order = ListingOrder
    /\ first_run = <<>>
    /\ iter = GetIterator(<<>>, config)
    /\ symbol_switch_list = <<>>
    /\ prefix = <<>>
    /\ summary = DirSummaryInit
    /\ printed = <<>>
    /\ summary_line = <<>>
    /\ exit_status = <<>>
    /\ walked = <<>>
    /\ pc = "loop"

SpecInclude == InitInclude /\ [][Next]_vars

\* ------------------------------------------------------------------------
\* C27: in active mode a directory the Walker returned is emitted iff the
\* Walker's sequence holds a non-directory below it; at any moment an
\* emitted directory already has such an entry in what the Walker returned,
\* and a directory with nothing on disk is never emitted.
\* ------------------------------------------------------------------------
WalkedFileBelow(p) ==
    \E j \in 1..Len(walked) :
        ~IsDir(walked[j]) /\ IsAncestor(p, walked[j].path)

DirEmittedIffFileWalkedBelow ==
    ElisionActive =>
        /\ \A i \in 1..Len(printed) :
              IsDir(printed[i].entry) =>
                 /\ WalkedFileBelow(printed[i].entry.path)
                 /\ DOMAIN NodeAt(fs, printed[i].entry.path).children # {}
        /\ pc = "done" =>
              \A i \in 1..Len(walked) :
                  IsDir(walked[i]) =>
                     (walked[i].path \in PathSet(Entries(printed))
                         <=> WalkedFileBelow(walked[i].path))

\* a finished run in active mode that emitted a directory below the root
\* and elided another one that is empty on disk
DirEmittedIffFileWalkedBelowWitness ==
    /\ ElisionActive
    /\ pc = "done"
    /\ \E i \in 1..Len(printed) :
          IsDir(printed[i].entry) /\ printed[i].entry.level = 1
    /\ \E i \in 1..Len(walked) :
          /\ IsDir(walked[i])
          /\ DOMAIN NodeAt(fs, walked[i].path).children = {}
          /\ walked[i].path \notin PathSet(Entries(printed))

\* ------------------------------------------------------------------------
\* C28: in what the Walker returns the root has is_last true; a child with
\* is_last true is never followed by a sibling; and once the walk is over,
\* among the returned children of one directory (those that pass the hidden
\* and include rules) exactly the one with the greatest name has is_last
\* true.
\* ------------------------------------------------------------------------
WalkedSiblings(i, j) ==
    /\ walked[i].path # <<>>
    /\ walked[j].path # <<>>
    /\ Parent(walked[i].path) = Parent(walked[j].path)

IsLastOnGreatestChild ==
    /\ \A i \in 1..Len(walked) : walked[i].path = <<>> => walked[i].is_last
    /\ \A i, j \in 1..Len(walked) :
          (i < j /\ WalkedSiblings(i, j)) => ~walked[i].is_last
    /\ pc = "done" =>
          /\ \A i \in 1..Len(walked) :
                walked[i].path # <<>> =>
                   (walked[i].is_last <=>
                       ~\E j \in 1..Len(walked) :
                           /\ WalkedSiblings(i, j)
                           /\ LexLess(walked[i].file_name, walked[j].file_name))
          /\ \A p \in ReachablePaths :
                (p # <<>> /\ \A q \in ReachablePaths :
                               (q # <<>> /\ Parent(q) = Parent(p))
                                  => ~LexLess(NameOf(p), NameOf(q)))
                   => \E i \in 1..Len(walked) :
                          walked[i].path = p /\ walked[i].is_last

\* a finished walk in which a directory below the root gave two children
IsLastOnGreatestChildWitness ==
    /\ pc = "done"
    /\ \E i, j \in 1..Len(walked) :
          /\ i < j
          /\ WalkedSiblings(i, j)
          /\ walked[j].level = 2
          /\ walked[j].is_last

\* ------------------------------------------------------------------------
\* C29: for each entry the loop of next() pulls, the cache after
\* remove_empty_directories_from_cache is the cache before it without the
\* directories of level >= the entry's level, which all sit at its back;
\* so the cache holds directories of strictly increasing level, and after
\* the removal each of them is an ancestor of the entry pulled.
\* ------------------------------------------------------------------------
RECURSIVE LoopTrims(_)
\* the removals the loop of the coming call makes: cache before, entry
\* pulled, cache after
LoopTrims(f) ==
    LET r == FileIteratorNext(f.current)
    IN IF r.item = <<>> THEN <<>>
       ELSE LET item == r.item[1]
                cache1 == RemoveEmptyDirectoriesFromCache(f.cache, item)
                trim == [before |-> f.cache, item |-> item, after |-> cache1]
            IN IF IsDir(item)
               THEN <<trim>> \o LoopTrims([f EXCEPT !.current = r.iter,
                                                     !.cache = Append(cache1, item)])
               ELSE <<trim>>

StrictlyDeeper(c) == \A i \in 1..(Len(c) - 1) : c[i].level < c[i + 1].level

CacheTrimmedToAncestors ==
    ElisionActive =>
        /\ StrictlyDeeper(iter.cache)
        /\ \A i \in 1..Len(iter.cache) :
              /\ IsDir(iter.cache[i])
              /\ IsPathPrefix(iter.cache[i].path, walked[Len(walked)].path)
        /\ (pc = "loop" /\ iter.cache = <<>> /\ iter.next_item = <<>>) =>
              \A k \in 1..Len(LoopTrims(iter)) :
                  LET t == LoopTrims(iter)[k]
                  IN /\ StrictlyDeeper(t.before)
                     /\ t.after = SelectSeq(t.before,
                                     LAMBDA d : d.level < t.item.level)
                     /\ t.after = SubSeq(t.before, 1, Len(t.after))
                     /\ \A i \in 1..Len(t.after) :
                           IsAncestor(t.after[i].path, t.item.path)

\* with the filter active the Walker returned two directories below the
\* root one after the other, the second no deeper than the first: the first
\* was removed from the cache behind the root
CacheTrimmedToAncestorsWitness ==
    /\ ElisionActive
    /\ \E i \in 2..(Len(walked) - 1) :
          /\ IsDir(walked[i])
          /\ IsDir(walked[i + 1])
          /\ walked[i + 1].level <= walked[i].level

\* ------------------------------------------------------------------------
\* C30: a call of next() in active mode that emits an entry does one of
\* three things.  With directories in the cache it returns the front one
\* and pulls nothing from the Walker; with the cache empty and a deferred
\* file it returns that file and pulls nothing; otherwise the Walker is
\* pulled until a file arrives, and with its k ancestors that are still
\* unemitted in the cache the call returns the oldest of them, leaves the
\* other k-1 in the cache front to back and the file deferred, and with
\* k = 0 returns the file itself.  So the file comes out on call k+1.
\* ------------------------------------------------------------------------
\* the ancestors of a path, the root first, that no line has been printed for
UnemittedAncestors(p) ==
    SelectSeq([k \in 1..Len(p) |-> SubSeq(p, 1, k - 1)],
              LAMBDA a : a \notin PathSet(Entries(printed)))

DeferredFileAfterCachedDirs ==
    [][(ElisionActive /\ PrintEntry) =>
          LET e == printed'[Len(printed')].entry
              file == walked'[Len(walked')]
          IN IF iter.cache # <<>>
             THEN /\ e = Head(iter.cache)
                  /\ iter'.cache = Tail(iter.cache)
                  /\ iter'.next_item = iter.next_item
                  /\ walked' = walked
             ELSE IF iter.next_item # <<>>
             THEN /\ e = iter.next_item[1]
                  /\ e = walked[Len(walked)]
                  /\ iter'.next_item = <<>>
                  /\ iter'.cache = <<>>
                  /\ walked' = walked
             ELSE /\ Len(walked') > Len(walked)
                  /\ ~IsDir(file)
                  /\ IF UnemittedAncestors(file.path) = <<>>
                     THEN /\ e = file
                          /\ iter'.cache = <<>>
                          /\ iter'.next_item = <<>>
                     ELSE /\ PathsOf(<<e>> \o iter'.cache)
                                = UnemittedAncestors(file.path)
                          /\ iter'.next_item = <<file>>]_vars

\* a file two levels down arrived with the root and its parent in the
\* cache, and three calls later it has been emitted after them with
\* nothing more pulled from the Walker
DeferredFileAfterCachedDirsWitness ==
    /\ ElisionActive
    /\ Len(printed) = 3
    /\ printed[1].entry.level = 0
    /\ printed[2].entry.level = 1
    /\ printed[3].entry.level = 2
    /\ ~IsDir(printed[3].entry)
    /\ printed[3].entry = walked[Len(walked)]
    /\ iter.next_item = <<>>

\* ------------------------------------------------------------------------
\* Runs under an include pattern that the hidden name does not match ("b.r")
\* or does match ("*.r"), with and without show_all
\* ------------------------------------------------------------------------
InitPatterns ==
    /\ fs \in {DirNode(c) : c \in Listings(1, MaxPatternNodes)}
    /\ config \in [show_all : BOOLEAN, max_level : MaxLevels,
                    include_glob : {GlobStarDotR, GlobLitBR},
                    exclude_glob : {NoGlob},
                    colorful : {FALSE}, size : {FALSE},
                    human_readable : {FALSE}]
    /\ args = PlainArgs
    /\ listing_order = ListingOrder
    /\ first_run = <<>>
    /\ iter = GetIterator(<<>>, config)
    /\ symbol_switch_list = <<>>
    /\ prefix = <<>>
    /\ summary = DirSummaryInit
    /\ printed = <<>>
    /\ summary_line = <<>>
    /\ exit_status = <<>>
    /\ walked = <<>>
    /\ pc = "loop"

SpecPatterns == InitPatterns /\ [][Next]_vars

\* ------------------------------------------------------------------------
\* C23: with show_all and an include pattern, every hidden regular file in
\* a directory the Walker expanded is printed, whether or not its name
\* matches the pattern, while a file that is not hidden and does not match
\* is not printed.
\* ------------------------------------------------------------------------
InExpandedDir(p) ==
    /\ p # <<>>
    /\ Len(p) <= config.max_level
    /\ Parent(p) \in PathSet(walked)

HiddenFilesShownWithPattern ==
    (pc = "done" /\ config.show_all /\ config.include_glob.some) =>
        \A p \in AllPaths :
            (KindAt(p) = "file" /\ InExpandedDir(p)) =>
                IF StartsWithDot(NameOf(p))
                THEN p \in PathSet(Entries(printed))
                ELSE ~GlobMatch(config.include_glob, NameOf(p))
                        => p \notin PathSet(Entries(printed))

\* ------------------------------------------------------------------------
\* format_human_readable_size alone: one call on the length of a file
\* ------------------------------------------------------------------------
InitSize ==
    /\ fs \in {SizedFileNode(b, FALSE) : b \in Sizes}
    /\ config = [show_all |-> FALSE, max_level |-> UsizeMax,
                 include_glob |-> NoGlob, exclude_glob |-> NoGlob,
                 colorful |-> FALSE, size |-> FALSE, human_readable |-> FALSE]
    /\ args = PlainArgs
    /\ listing_order = ListingOrder
    /\ first_run = <<>>
    /\ iter = GetIterator(<<>>, config)
    /\ symbol_switch_list = <<>>
    /\ prefix = <<>>
    /\ summary = DirSummaryInit
    /\ printed = <<>>
    /\ summary_line = <<>>
    /\ exit_status = <<>>
    /\ walked = <<>>
    /\ pc = "size"

\* the call format_human_readable_size(metadata.len()); printed records
\* (history) the argument and the string returned
FormatHumanReadableSizeCall ==
    /\ pc = "size"
    /\ printed' = <<[bytes |-> fs.len,
                     size_str |-> FormatHumanReadableSize(fs.len)]>>
    /\ pc' = "formatted"
    /\ UNCHANGED <<fs, config, args, listing_order, first_run, iter, symbol_switch_list, prefix, summary,
                   summary_line, exit_status, walked>>

NextSize == FormatHumanReadableSizeCall

SpecSize == InitSize /\ [][NextSize]_vars

\* ------------------------------------------------------------------------
\* C25: the string is "0B" for 0 and the integer followed by B for 1..1023;
\* from 1024 on the unit is the largest of KB..PB whose size the value
\* reaches, the number is the value divided by that size, printed with one
\* decimal when it is below 10 and with none otherwise (to within half a
\* unit of the last digit printed); 1024 gives "1.0KB", 1536 "1.5KB",
\* 10240 "10KB" and 1073741824 "1.0GB".
\* ------------------------------------------------------------------------
\* mant * 1024^exp >= 1024^u, for mant below 1024^3
ReachesUnit(b, u) ==
    IF b.exp >= u THEN b.mant >= 1
    ELSE IF u - b.exp >= 3 THEN FALSE
    ELSE b.mant >= Pow1024(u - b.exp)

\* the value divided by 1024^u as the fraction num / den
ScaledNum(b, u) == IF b.exp >= u THEN b.mant * Pow1024(b.exp - u) ELSE b.mant
ScaledDen(b, u) == IF b.exp >= u THEN 1 ELSE Pow1024(u - b.exp)

\* |x - num/den| <= 1/2
WithinHalf(x, num, den) ==
    /\ 2 * (den * x - num) <= den
    /\ 2 * (num - den * x) <= den

HumanReadableSizeFormat ==
    pc = "formatted" =>
        LET b == printed[1].bytes
            str == printed[1].size_str
        IN /\ b.mant = 0 => str = "0B"
           /\ (b.exp = 0 /\ b.mant \in 1..1023) => str = ToString(b.mant) \o "B"
           /\ ReachesUnit(b, 1) =>
                 \E u \in 1..5 :
                     /\ ReachesUnit(b, u)
                     /\ u = 5 \/ ~ReachesUnit(b, u + 1)
                     /\ LET num == ScaledNum(b, u)
                            den == ScaledDen(b, u)
                        IN IF num < 10 * den
                           THEN \E t \in {(10 * num) \div den,
                                          (10 * num) \div den + 1} :
                                   /\ WithinHalf(t, 10 * num, den)
                                   /\ str = ToString(t \div 10) \o "."
                                               \o ToString(t % 10) \o UNITS[u + 1]
                           ELSE \E n \in {num \div den, num \div den + 1} :
                                   /\ WithinHalf(n, num, den)
                                   /\ str = ToString(n) \o UNITS[u + 1]
           /\ b = Bytes(1024, 0) => str = "1.0KB"
           /\ b = Bytes(1536, 0) => str = "1.5KB"
           /\ b = Bytes(10240, 0) => str = "10KB"
           /\ b = Bytes(1, 3) => str = "1.0GB"

\* the call was made on 1536 bytes
HumanReadableSizeFormatWitness ==
    /\ pc = "formatted"
    /\ printed[1].bytes = Bytes(1536, 0)
    /\ printed[1].size_str = "1.5KB"

\* ------------------------------------------------------------------------
\* Runs that are about the look of a line: every combination of -C, -N,
\* is_tty, -s and of the value print_path finds in human_readable, over
\* snapshots holding plain and executable files, symbolic links, entries
\* with unreadable metadata and directories
\* ------------------------------------------------------------------------
RenderLeaves ==
    {SizedFileNode(Bytes(5, 0), FALSE), SizedFileNode(Bytes(2, 1), TRUE),
     SymlinkNode(<<>>), ErrNode}

RECURSIVE RenderListings(_, _)
\* every children map over the names FaultNameSeq[i..] holding at most b nodes
RenderListings(i, b) ==
    IF i > Len(FaultNameSeq) THEN {NoChildren}
    ELSE LET n == FaultNameSeq[i]
             absent == RenderListings(i + 1, b)
             asLeaf == IF b >= 1
                       THEN {(n :> leaf) @@ g :
                                leaf \in RenderLeaves,
                                g \in RenderListings(i + 1, b - 1)}
                       ELSE {}
             asDir == IF b >= 1
                      THEN UNION {{(n :> DirNode(c)) @@ g :
                                      g \in RenderListings(i + 1,
                                                b - 1 - NodeCount(c))} :
                                  c \in RenderListings(1, b - 1)}
                      ELSE {}
         IN absent \cup asLeaf \cup asDir

InitRender ==
    /\ fs \in {DirNode(c) : c \in RenderListings(1, MaxRenderNodes)}
    /\ args \in ArgSets
    /\ listing_order = ListingOrder
    /\ first_run = <<>>
    /\ config \in [show_all : {FALSE}, max_level : {UsizeMax},
                   include_glob : {NoGlob}, exclude_glob : {NoGlob},
                   colorful : {Colorful(args)}, size : BOOLEAN,
                   human_readable : BOOLEAN]
    /\ iter = GetIterator(<<>>, config)
    /\ symbol_switch_list = <<>>
    /\ prefix = <<>>
    /\ summary = DirSummaryInit
    /\ printed = <<>>
    /\ summary_line = <<>>
    /\ exit_status = <<>>
    /\ walked = <<>>
    /\ pc = "loop"

SpecRender == InitRender /\ [][Next]_vars

\* ------------------------------------------------------------------------
\* C24: a line ends with the size suffix " [<size>]" iff the size option -s
\* was given and the line's entry is a regular file; directories, symbolic
\* links and entries with unreadable metadata never have it, and without
\* -s no line has it.
\* ------------------------------------------------------------------------
HasSizeSuffix(line) ==
    /\ line.entry.kind # "err"
    /\ Len(line.text) = 2
    /\ line.entry.kind = "file" =>
          line.text[2] = " [" \o FormatHumanReadableSize(
                                    NodeAt(fs, line.entry.path).len) \o "]"

SizeSuffixIffSizeOptionAndFile ==
    \A i \in 1..Len(printed) :
        HasSizeSuffix(printed[i])
            <=> (config.size /\ printed[i].entry.kind = "file")

\* ------------------------------------------------------------------------
\* C26: colorful is true iff -C is given, or neither -C nor -N is given and
\* is_tty holds; without it every line is made of plain writes; with it the
\* name of a directory and of an executable file is written between a
\* colour and a reset, and every colour set is reset after one write.
\* ------------------------------------------------------------------------
StyleOps == {"fg BRIGHT_BLUE", "fg BRIGHT_RED", "fg BRIGHT_BLACK", "reset"}

ColoringRule ==
    /\ config.colorful <=>
          (args.color_on
             \/ (~args.color_on /\ ~args.color_off /\ args.is_tty))
    /\ \A i \in 1..Len(printed) :
          LET ops == printed[i].ops
              e == printed[i].entry
          IN /\ ~config.colorful => \A k \in 1..Len(ops) : ops[k] = "write"
             /\ \A k \in 1..Len(ops) :
                   (ops[k] \in StyleOps /\ ops[k] # "reset") =>
                      /\ k + 2 <= Len(ops)
                      /\ ops[k + 1] = "write"
                      /\ ops[k + 2] = "reset"
             /\ (config.colorful /\ e.kind = "dir") =>
                   SubSeq(ops, 1, 3) = <<"fg BRIGHT_BLUE", "write", "reset">>
             /\ (config.colorful /\ e.kind = "file"
                   /\ NodeAt(fs, e.path).exec) =>
                   SubSeq(ops, 1, 3) = <<"fg BRIGHT_RED", "write", "reset">>
             /\ printed[i].text[1] = e.file_name

\* a finished run with neither -C nor -N on a terminal that printed a
\* directory below the root and an executable file in colour
ColoringRuleWitness ==
    /\ pc = "done"
    /\ ~args.color_on /\ ~args.color_off /\ args.is_tty
    /\ \E i, j \in 2..Len(printed) :
          /\ printed[i].entry.kind = "dir"
          /\ printed[j].entry.kind = "file"
          /\ NodeAt(fs, printed[j].entry.path).exec
          /\ printed[j].ops[1] = "fg BRIGHT_RED"

\* ------------------------------------------------------------------------
\* Two runs of the program, one after the other, over the same snapshot
\* with the same configuration, the system listing the names in any order
\* in the first run and in any order in the second
\* ------------------------------------------------------------------------
InitOrders ==
    /\ fs \in {DirNode(c) : c \in Listings(1, MaxOrderNodes)}
    /\ config \in [show_all : {TRUE}, max_level : {UsizeMax},
                   include_glob : IncludeGlobs, exclude_glob : {NoGlob},
                   colorful : {FALSE}, size : {FALSE},
                   human_readable : {FALSE}]
    /\ args = PlainArgs
    /\ listing_order \in ListingOrders
    /\ first_run = <<>>
    /\ iter = GetIterator(<<>>, config)
    /\ symbol_switch_list = <<>>
    /\ prefix = <<>>
    /\ summary = DirSummaryInit
    /\ printed = <<>>
    /\ summary_line = <<>>
    /\ exit_status = <<>>
    /\ walked = <<>>
    /\ pc = "loop"

\* the program is started again: main builds the same Config, print_folders
\* starts from a fresh iterator, vector, buffer and summary
RunAgain ==
    /\ pc = "done"
    /\ first_run = <<>>
    /\ first_run' = <<[printed |-> printed, summary_line |-> summary_line,
                       exit_status |-> exit_status,
                       listing_order |-> listing_order]>>
    /\ listing_order' \in ListingOrders
    /\ iter' = GetIterator(<<>>, config)
    /\ symbol_switch_list' = <<>>
    /\ prefix' = <<>>
    /\ summary' = DirSummaryInit
    /\ printed' = <<>>
    /\ summary_line' = <<>>
    /\ exit_status' = <<>>
    /\ walked' = <<>>
    /\ pc' = "loop"
    /\ UNCHANGED <<fs, config, args>>

NextOrders == PrintEntry \/ Finish \/ RunAgain

SpecOrders == InitOrders /\ [][NextOrders]_vars

\* ------------------------------------------------------------------------
\* C21: the second of two complete runs over the same snapshot with the
\* same configuration prints what the first printed: the same entries in
\* the same order, the same prefix on every line, the same summary and
\* status, whatever the order in which the system listed the names in
\* either run; while it runs, its lines are the first lines of the first.
\* ------------------------------------------------------------------------
SameOutputTwice ==
    first_run # <<>> =>
        /\ Len(printed) <= Len(first_run[1].printed)
        /\ printed = SubSeq(first_run[1].printed, 1, Len(printed))
        /\ pc = "done" =>
              /\ printed = first_run[1].printed
              /\ summary_line = first_run[1].summary_line
              /\ exit_status = first_run[1].exit_status

\* two finished runs under different listing orders of a directory holding
\* at least two entries that were printed
SameOutputTwiceWitness ==
    /\ pc = "done"
    /\ first_run # <<>>
    /\ Len(printed) >= 3
    /\ LET o1 == SelectSeq(first_run[1].listing_order,
                           LAMBDA n : n \in DOMAIN fs.children)
           o2 == SelectSeq(listing_order, LAMBDA n : n \in DOMAIN fs.children)
       IN o1 # o2

\* ------------------------------------------------------------------------
\* Runs over snapshots in which symbolic links point back to the root, with
\* the for loop of print_folders calling next() as long as it yields
\* ------------------------------------------------------------------------
RECURSIVE LinkListings(_, _)
\* every children map over the names FaultNameSeq[i..] holding at most b nodes
LinkListings(i, b) ==
    IF i > Len(FaultNameSeq) THEN {NoChildren}
    ELSE LET n == FaultNameSeq[i]
             absent == LinkListings(i + 1, b)
             asLeaf == IF b >= 1
                       THEN {(n :> leaf) @@ g :
                                leaf \in {FileNode, SymlinkNode(<<>>)},
                                g \in LinkListings(i + 1, b - 1)}
                       ELSE {}
             asDir == IF b >= 1
                      THEN UNION {{(n :> DirNode(c)) @@ g :
                                      g \in LinkListings(i + 1,
                                                b - 1 - NodeCount(c))} :
                                  c \in LinkListings(1, b - 1)}
                      ELSE {}
         IN absent \cup asLeaf \cup asDir

InitLinks ==
    /\ fs \in {DirNode(c) : c \in LinkListings(1, MaxLinkNodes)}
    /\ config \in [show_all : {FALSE}, max_level : {1, 2, UsizeMax},
                   include_glob : {NoGlob}, exclude_glob : {NoGlob},
                   colorful : {FALSE}, size : {FALSE},
                   human_readable : {FALSE}]
    /\ args = PlainArgs
    /\ listing_order = ListingOrder
    /\ first_run = <<>>
    /\ iter = GetIterator(<<>>, config)
    /\ symbol_switch_list = <<>>
    /\ prefix = <<>>
    /\ summary = DirSummaryInit
    /\ printed = <<>>
    /\ summary_line = <<>>
    /\ exit_status = <<>>
    /\ walked = <<>>
    /\ pc = "loop"

\* Weak fairness of Next: the for loop of print_folders calls next() again
\* after every entry. Next is enabled exactly while pc = "loop", so
\* WF_vars(Next) is written with that condition in place of ENABLED.
LoopRuns == []<>(pc = "done") \/ []<><<Next>>_vars

SpecLinks == InitLinks /\ [][Next]_vars /\ LoopRuns

\* ------------------------------------------------------------------------
\* C22: the Walker returns no more entries than the snapshot has nodes and
\* no path twice, and the calls of next() eventually get the end of the
\* sequence; so it is without a depth limit and with links that point back
\* to the root.
\* ------------------------------------------------------------------------
WalkIsFinite ==
    /\ [](/\ Len(walked) <= NodeCount(fs.children) + 1
          /\ \A i, j \in 1..Len(walked) :
                i # j => walked[i].path # walked[j].path)
    /\ <>(pc = "done")

\* a finished walk without a depth limit that returned a link to the root
\* two levels down
WalkIsFiniteWitness ==
    /\ pc = "done"
    /\ config.max_level = UsizeMax
    /\ \E i \in 1..Len(walked) :
          walked[i].kind = "symlink" /\ walked[i].level = 2

\* ------------------------------------------------------------------------
\* C31: in bypass and in elision mode the first emitted entry has level 0,
\* every later one a level of at least 1 and at most one more than the
\* entry emitted just before it, and the parent directory of every emitted
\* entry was emitted before it; so the one push of cal_symbol_switch brings
\* the vector to the entry's level.
\* ------------------------------------------------------------------------
EmittedLevelsStepByOne ==
    \A i \in 1..Len(printed) :
        LET e == printed[i].entry
        IN /\ i = 1 => e.level = 0
           /\ i >= 2 =>
                 /\ e.level >= 1
                 /\ e.level <= printed[i - 1].entry.level + 1
                 /\ \E j \in 1..(i - 1) :
                       /\ IsDir(printed[j].entry)
                       /\ printed[j].entry.path = Parent(e.path)
           /\ Len(printed[i].switches) = e.level

\* with the filter active, the levels went up by one twice and then fell
\* by two
EmittedLevelsStepByOneWitness ==
    /\ ElisionActive
    /\ \E i \in 3..(Len(printed) - 1) :
          /\ printed[i - 1].entry.level = printed[i - 2].entry.level + 1
          /\ printed[i].entry.level = printed[i - 1].entry.level + 1
          /\ printed[i + 1].entry.level = printed[i].entry.level - 2

\* ------------------------------------------------------------------------
\* FilteredIterator driven by a caller that goes on calling next() after it
\* has returned None; printed holds what each call returned
\* ------------------------------------------------------------------------
InitCalls ==
    /\ fs \in {DirNode(c) : c \in Listings(1, MaxCallNodes)}
    /\ config \in [show_all : {TRUE}, max_level : {1, UsizeMax},
                   include_glob : IncludeGlobs, exclude_glob : {NoGlob},
                   colorful : {FALSE}, size : {FALSE},
                   human_readable : {FALSE}]
    /\ args = PlainArgs
    /\ listing_order = ListingOrder
    /\ first_run = <<>>
    /\ iter = GetIterator(<<>>, config)
    /\ symbol_switch_list = <<>>
    /\ prefix = <<>>
    /\ summary = DirSummaryInit
    /\ printed = <<>>
    /\ summary_line = <<>>
    /\ exit_status = <<>>
    /\ walked = <<>>
    /\ pc = "loop"

\* the calls that returned None so far
NoneReturns == Len(SelectSeq(printed, LAMBDA c : c.returned = <<>>))

\* one call of FilteredIterator::next
NextCall ==
    /\ NoneReturns <= MaxExtraCalls
    /\ LET r == FilteredNext(iter)
       IN /\ iter' = r.iter
          /\ walked' = walked \o r.pulled
          /\ printed' = Append(printed, [returned |-> r.item])
          /\ pc' = IF r.item = <<>> THEN "done" ELSE pc
    /\ UNCHANGED <<fs, config, args, listing_order, first_run,
                   symbol_switch_list, prefix, summary, summary_line,
                   exit_status>>

NextCalls == NextCall

SpecCalls == InitCalls /\ [][NextCalls]_vars

\* ------------------------------------------------------------------------
\* C32: once next() of the filter in active mode has returned None, every
\* further call returns None as well: a directory left in the cache when the
\* Walker is exhausted is not handed out by a later call.
\* ------------------------------------------------------------------------
NoneThenAlwaysNone ==
    ElisionActive =>
        \A i, j \in 1..Len(printed) :
            (i < j /\ printed[i].returned = <<>>) => printed[j].returned = <<>>

\* ------------------------------------------------------------------------
\* C33: with the filter active and a finite max_level, a directory at level
\* max_level is never emitted, whatever it holds, and a directory above it
\* is emitted only if a non-directory at a level of at most max_level lies
\* below it.
\* ------------------------------------------------------------------------
DirAtMaxLevelNeverEmitted ==
    (ElisionActive /\ config.max_level # UsizeMax) =>
        \A i \in 1..Len(printed) :
            LET e == printed[i].entry
            IN IsDir(e) =>
                  /\ e.level # config.max_level
                  /\ \E p \in AllPaths :
                        /\ IsAncestor(e.path, p)
                        /\ KindAt(p) # "dir"
                        /\ Len(p) <= config.max_level

\* a finished run with max_level 1 that emitted the root for a file beside
\* a directory holding a matching file
DirAtMaxLevelNeverEmittedWitness ==
    /\ ElisionActive
    /\ pc = "done"
    /\ config.max_level = 1
    /\ \E i \in 1..Len(printed) : printed[i].entry.path = <<>>
    /\ \E p \in AllPaths :
          /\ Len(p) = 2
          /\ KindAt(p) = "file"
          /\ GlobMatch(config.include_glob, NameOf(p))
          /\ NotHiddenAway(p)
          /\ \A i \in 1..Len(printed) : printed[i].entry.path # Parent(p)

\* ------------------------------------------------------------------------
\* Runs over roots of any name and kind: a directory, a regular file, a
\* symbolic link or a path whose metadata cannot be read
\* ------------------------------------------------------------------------
RootNames == {NameRoot, NameDotR, NameA, NameBR}

RootNodes ==
    {DirNode(c) : c \in Listings(1, MaxRootNodes)}
        \cup {FileNode, SymlinkNode(<<>>), ErrNode}

InitRoots ==
    /\ fs \in RootNodes
    /\ config \in [show_all : BOOLEAN, max_level : MaxLevels,
                   include_glob : {NoGlob, GlobStarDotR, GlobLitBR},
                   exclude_glob : {NoGlob},
                   colorful : {FALSE}, size : {FALSE},
                   human_readable : {FALSE}]
    /\ args \in [color_on : {FALSE}, color_off : {FALSE}, is_tty : {FALSE},
                 dir : RootNames]
    /\ listing_order = ListingOrder
    /\ first_run = <<>>
    /\ iter = GetIterator(<<>>, config)
    /\ symbol_switch_list = <<>>
    /\ prefix = <<>>
    /\ summary = DirSummaryInit
    /\ printed = <<>>
    /\ summary_line = <<>>
    /\ exit_status = <<>>
    /\ walked = <<>>
    /\ pc = "loop"

SpecRoots == InitRoots /\ [][Next]_vars

\* ------------------------------------------------------------------------
\* C34: the Walker returns the root first, at level 0, whatever its name:
\* whether it starts with "." while hidden names are left out or fails the
\* include pattern; and a root that is a directory is expanded when
\* max_level is above 0: its included children are returned.
\* ------------------------------------------------------------------------
RootAlwaysWalkedFirst ==
    /\ (pc = "done" \/ printed # <<>>) => walked # <<>>
    /\ walked # <<>> =>
          /\ walked[1].path = <<>>
          /\ walked[1].level = 0
          /\ walked[1].file_name = args.dir
    /\ (pc = "done" /\ fs.kind = "dir" /\ config.max_level > 0) =>
          {walked[i].path : i \in {k \in 1..Len(walked) : walked[k].level = 1}}
             = {<<n>> : n \in {m \in DOMAIN fs.children :
                    IsIncluded(iter.current, m, fs.children[m].kind = "dir")}}

\* a finished run without hidden names and with the pattern b.r on a
\* directory named .r, which was expanded
RootAlwaysWalkedFirstWitness ==
    /\ pc = "done"
    /\ ~config.show_all
    /\ config.include_glob = GlobLitBR
    /\ args.dir = NameDotR
    /\ fs.kind = "dir"
    /\ Len(walked) >= 2

DirCountIsDirsBelowRoot ==
    LET out == Entries(printed)
        below == SelectSeq(out, LAMBDA e : IsDir(e) /\ e.level >= 1)
    IN /\ NumDirs(out) >= 1 =>
             \E i \in 1..Len(out) : IsDir(out[i]) /\ out[i].path = <<>>
       /\ pc = "done" =>
             /\ summary.num_folders = Len(below)
             /\ summary_line[1] = Len(below)
             /\ NumDirs(out) = 0 => summary.num_folders = 0

\* a finished run in which the root, a directory, was elided
DirCountIsDirsBelowRootWitness ==
    /\ pc = "done"
    /\ ElisionActive
    /\ fs.kind = "dir"
    /\ fs.children # NoChildren
    /\ printed = <<>>

\* ------------------------------------------------------------------------
\* Runs, with and without an include pattern, over snapshots in which
\* symbolic links point to the directory a of the root, which holds no link
\* ------------------------------------------------------------------------
RECURSIVE LinkedListings(_, _)
\* every children map over the names FaultNameSeq[i..] holding at most b nodes
LinkedListings(i, b) ==
    IF i > Len(FaultNameSeq) THEN {NoChildren}
    ELSE LET n == FaultNameSeq[i]
             absent == LinkedListings(i + 1, b)
             asLeaf == IF b >= 1
                       THEN {(n :> leaf) @@ g :
                                leaf \in {FileNode, SymlinkNode(<<NameA>>)},
                                g \in LinkedListings(i + 1, b - 1)}
                       ELSE {}
             asDir == IF b >= 1
                      THEN UNION {{(n :> DirNode(c)) @@ g :
                                      g \in LinkedListings(i + 1,
                                                b - 1 - NodeCount(c))} :
                                  c \in LinkedListings(1, b - 1)}
                      ELSE {}
         IN absent \cup asLeaf \cup asDir

RECURSIVE HasLink(_)
\* a children map holds a symbolic link at some level
HasLink(c) ==
    \E n \in DOMAIN c : c[n].kind = "symlink" \/ HasLink(c[n].children)

\* the links of the snapshot have their target: the root holds the
\* directory a, and no link lies in it
LinkedRoots ==
    {DirNode(c) : c \in {d \in LinkedListings(1, MaxLinkedNodes) :
        /\ NameA \in DOMAIN d
        /\ d[NameA].kind = "dir"
        /\ ~HasLink(d[NameA].children)
        /\ HasLink(d)}}

InitLinked ==
    /\ fs \in LinkedRoots
    /\ config \in [show_all : {FALSE}, max_level : {1, UsizeMax},
                   include_glob : IncludeGlobs, exclude_glob : {NoGlob},
                   colorful : {FALSE}, size : {FALSE},
                   human_readable : {FALSE}]
    /\ args = PlainArgs
    /\ listing_order = ListingOrder
    /\ first_run = <<>>
    /\ iter = GetIterator(<<>>, config)
    /\ symbol_switch_list = <<>>
    /\ prefix = <<>>
    /\ summary = DirSummaryInit
    /\ printed = <<>>
    /\ summary_line = <<>>
    /\ exit_status = <<>>
    /\ walked = <<>>
    /\ pc = "loop"

SpecLinked == InitLinked /\ [][Next]_vars

\* ------------------------------------------------------------------------
\* C37: an entry that is a symbolic link, here one to a directory, is not a
\* directory: nothing below it is returned; in an expanded directory it is
\* returned iff its name matches the include pattern (if there is one);
\* with the filter active the directories above it are emitted before it;
\* and it is counted in the file count.
\* ------------------------------------------------------------------------
LinkPaths == {p \in AllPaths : KindAt(p) = "symlink"}

SymlinkIsNonDirectory ==
    /\ \A i \in 1..Len(walked) :
          /\ walked[i].kind = "symlink" => ~IsDir(walked[i])
          /\ \A p \in LinkPaths : ~IsAncestor(p, walked[i].path)
    /\ \A i \in 1..Len(printed) :
          printed[i].entry.kind = "symlink" =>
              \A k \in 0..(Len(printed[i].entry.path) - 1) :
                  \E j \in 1..(i - 1) :
                      printed[j].entry.path = SubSeq(printed[i].entry.path, 1, k)
    /\ pc = "done" =>
          /\ \A p \in LinkPaths :
                (Parent(p) \in PathSet(walked)
                    /\ Len(Parent(p)) < config.max_level) =>
                   /\ p \in PathSet(walked)
                         <=> (~config.include_glob.some
                                \/ GlobMatch(config.include_glob, NameOf(p)))
                   /\ p \in PathSet(walked) => p \in PathSet(Entries(printed))
          /\ summary.num_files =
                Len(SelectSeq(Entries(printed), LAMBDA e : e.kind = "file"))
                  + Len(SelectSeq(Entries(printed),
                                  LAMBDA e : e.kind = "symlink"))

\* a finished run with the filter active that emitted a link two levels
\* down, the only entry of its directory
SymlinkIsNonDirectoryWitness ==
    /\ pc = "done"
    /\ ElisionActive
    /\ \E i \in 1..Len(printed) :
          LET e == printed[i].entry
          IN /\ e.kind = "symlink"
             /\ e.level = 2
             /\ DOMAIN NodeAt(fs, Parent(e.path)).children = {NameOf(e.path)}
             /\ summary.num_files >= 1

====
